---- MODULE Spec2Model ----
(***************************************************************************)
(* Countdown Audio Builder: the command-line core (countdown_builder.py). *)
(*                                                                         *)
(* A run is main(): parse_args has produced a Settings value, main probes  *)
(* the audio library, calls the assembler of the chosen mode, and then     *)
(* exports the track and writes the timeline sidecar.                      *)
(*                                                                         *)
(* Audio segments are modelled by what the assemblers observe of them:    *)
(* their kind and their length in milliseconds (len(seg)).  Concatenation *)
(* (combined += seg) appends the segment to the track, whose length is    *)
(* the sum of the lengths of its segments.  Seconds given as floats       *)
(* (interval, long_interval) are carried in half-milliseconds so that     *)
(* int(x * 1000) truncates.                                                *)
(***************************************************************************)
EXTENDS Integers, Sequences, FiniteSets, TLC

(* ------------------------------ bounds -------------------------------- *)

MaxStart == 8

MaxEveryN == 4

MaxSkip == 2

(* Speech speed of the synthesizer, in ms per character of text. *)
Voices == {1, 2}

(* (interval, long_interval) pairs, in half-milliseconds (1/2000 s). *)
Timings == { <<3, 7>>, <<-3, 7>>, <<3, -3>> }

(* --lead-in / --lead-in-gap-ms pairs given on the command line. *)
None == "<None>"

LeadIns == { <<None, 1000>>, <<"Get ready", 0>>, <<"Get ready", 2>> }

EndWiths == { None, "Good Job!" }

(* --speak-interval / --speak-at pairs (minutes mode). *)
NoSpeakAt == << >>

SpeakPolicies ==
  { <<0, NoSpeakAt>>, <<2, NoSpeakAt>>, <<0, <<5, 1>> >>, <<2, <<5, 1>> >>,
    <<3, <<4, 2>> >> }

(* --start is any integer; one value below zero is followed. *)
MinStart == -1

(* The tts_cached calls followed in the model of the speech cache. *)
MaxCalls == 4

(* The (lang, tld, text) triples the calls are made for. *)
Langs == { "en" }

Tlds == { "com", "com|3" }

Texts == { "rest", "3|rest" }

(* The runs that share one cache directory at the same time. *)
MaxRuns == 3

Runs == 1..MaxRuns

(* The generate requests a front-end receives. *)
MaxRequests == 3

(* --------------------------- program constants ------------------------ *)

(* tts_with_retry_to_audiosegment: retries = 3, delay = 1.2 s (in ms). *)
Retries == 3

DelayMs == 1200

MinuteMs == 60000

BeepMs == 300

VARIABLES
  settings,       \* the Settings value parse_args returned
  voice,          \* the synthesizer's speed (ms per character)
  pc,             \* main's position
  rc,             \* main's return code (-1 while running)
  i,              \* the loop variable of the assembler
  skipped_rests,  \* rest boundaries suppressed so far
  combined,       \* the track: the sequence of appended segments
  timeline,       \* the list of {label, start, end} entries
  t_ms,           \* the running offset
  rest_seg,       \* the precomputed rest cue (NoSeg when not computed)
  beep,           \* the precomputed tone (NoSeg before it is made)
  tts_requests,   \* the texts handed to tts_cached, in order
  tones_made,     \* calls of make_beep
  files,          \* the files main has written, in order
  error,          \* what made main raise ("none" while it has not)
  cache,          \* tts_cache: for each key the stored clip (Missing: no file)
  tts_pc,         \* the position of the tts_cached call
  tts_key,        \* the key of the current or last tts_cached call
  attempt,        \* the loop variable of tts_with_retry_to_audiosegment
  events,         \* the attempts and sleeps of the current or last call
  synth_calls,    \* for each key, the calls of tts_to_file made so far
  tts_result,     \* what the last tts_cached call returned (Missing: nothing)
  tts_outcome,    \* how the last tts_cached call ended
  tts_calls,      \* the tts_cached calls made so far
  tts_triple,     \* the (lang, tld, text) of the current or last call
  made_for,       \* for each cache entry, the triple it was synthesized for
  served,         \* how each assembler step's clips were served (a history)
  cache_file,     \* the cache file of one key, shared by concurrent runs
  run_pc,         \* each concurrent run's position in tts_cached
  run_loaded,     \* what each concurrent run's tts_cached loaded
  front,          \* the front-end: "web" or "gui"
  running,        \* generation_status["running"] / is_generating
  message,        \* generation_status["message"] / the status label
  workers,        \* each worker thread's position
  procs,          \* builder subprocesses alive
  callbacks,      \* root.after callbacks waiting for the Tk main loop
  requests,       \* generate requests received so far
  button,         \* the state of the GUI's generate button
  alerts,         \* error boxes the GUI has shown
  form,           \* what the last generate request submitted
  file,           \* generation_status["file"]
  response,       \* the web handler's answer to the last POST /generate
  last_started,   \* did the last request start a generation?
  params_of,      \* the params each worker's closure holds
  outcome_of      \* how each worker's generation ended

mainVars == << settings, voice, pc, rc, i, skipped_rests, combined, timeline,
               t_ms, rest_seg, beep, tts_requests, tones_made, files, error >>

ttsVars == << cache, tts_pc, tts_key, attempt, events, synth_calls,
              tts_result, tts_outcome, tts_calls, tts_triple, made_for >>

raceVars == << cache_file, run_pc, run_loaded >>

frontVars == << front, running, message, workers, procs, callbacks, requests,
               button, alerts, form, file, response, last_started, params_of,
               outcome_of >>

(* The variables outside main and tts_cached. *)
sideVars == << served, raceVars, frontVars >>

vars == << mainVars, ttsVars, sideVars >>

(* ------------------------------ helpers ------------------------------- *)

Digits == << "0", "1", "2", "3", "4", "5", "6", "7", "8", "9" >>

RECURSIVE Str(_)
Str(n) == IF n < 10 THEN Digits[n + 1]
          ELSE Str(n \div 10) \o Digits[(n % 10) + 1]

(* int(x * 1000) for x seconds held as h half-milliseconds: truncation
   toward zero. *)
IntMs(h) == IF h >= 0 THEN h \div 2 ELSE -((-h) \div 2)

(* Python truthiness of an Optional[str]. *)
Truthy(x) == x # None /\ x # ""

NoSeg == [kind |-> "none", len |-> 0]

(* A synthesized clip after prep(): its length is that of the speech. *)
Speech(text, v) == [kind |-> "speech", len |-> Len(text) * v]

(* make_beep: a tone of ms milliseconds. *)
make_beep(ms) == [kind |-> "tone", len |-> ms]

(* AudioSegment.silent(duration=ms): a request for a negative duration
   yields an empty segment. *)
Silent(ms) == [kind |-> "silence", len |-> IF ms > 0 THEN ms ELSE 0]

SegLen(seg) == seg.len

RECURSIVE SumLen(_)
SumLen(segs) == IF segs = << >> THEN 0
                ELSE SegLen(Head(segs)) + SumLen(Tail(segs))

(* len(combined) *)
TrackLen(track) == SumLen(track)

(* ------------------------------ Settings ------------------------------ *)

(* The Settings values parse_args can return (lines 354-376), over the
   bounded command lines.  speak_interval and speak_at are read in minutes
   mode only and stay at their defaults in numbers mode. *)
SettingsOf(mode, start, tm, every_n, skip, lead, end_with, sp) ==
  [ mode            |-> mode,
    start           |-> start,
    interval        |-> tm[1],
    long_interval   |-> tm[2],
    every_n         |-> every_n,
    skip_first_rest |-> skip,
    lead_in         |-> lead[1],
    lead_in_gap_ms  |-> lead[2],
    rest_text       |-> "rest",
    end_with        |-> end_with,
    speak_interval  |-> sp[1],
    speak_at        |-> sp[2],
    minute_text     |-> "minutes remaining",
    beep_ms         |-> BeepMs ]

SpeakPoliciesOf(mode) ==
  IF mode = "minutes" THEN SpeakPolicies ELSE { <<0, NoSpeakAt>> }

parse_args ==
  UNION { { SettingsOf(mode, start, tm, every_n, skip, lead, end_with, sp) :
              start \in MinStart..MaxStart,
              tm \in Timings,
              every_n \in 0..MaxEveryN,
              skip \in 0..MaxSkip,
              lead \in LeadIns,
              end_with \in EndWiths,
              sp \in SpeakPoliciesOf(mode) } :
          mode \in {"numbers", "minutes"} }

(* ------------------------------ assembly ------------------------------ *)

InSeq(x, sq) == \E k \in 1..Len(sq) : sq[k] = x

(* Mutant of should_speak_minute: minute 1 is spoken whatever the explicit
   set says. *)
should_speak_minute_forces_one(minute, s) ==
  IF Len(s.speak_at) > 0 THEN InSeq(minute, s.speak_at) \/ minute = 1
  ELSE IF s.speak_interval > 0
       THEN minute % s.speak_interval = 0 \/ minute = 1
       ELSE TRUE

should_speak_minute(minute, s) ==
  IF Len(s.speak_at) > 0 THEN InSeq(minute, s.speak_at)
  ELSE IF s.speak_interval > 0
       THEN minute % s.speak_interval = 0 \/ minute = 1
       ELSE TRUE

(* The text spoken for a minute (lines 155-158); the default minute_text
   contains 'minutes', which is singularized for minute 1. *)
MinuteText(minute, s) ==
  IF minute = 1
  THEN "1 " \o (IF s.minute_text = "minutes remaining"
                THEN "minute remaining" ELSE s.minute_text)
  ELSE Str(minute) \o " " \o s.minute_text

(* The state an assembler threads through its appends. *)
BuildState(c, tl, t, sk, req) ==
  [combined |-> c, timeline |-> tl, t_ms |-> t, skipped_rests |-> sk,
   tts_requests |-> req]

EmptyBuild(req) == BuildState(<< >>, << >>, 0, 0, req)

(* combined += seg; timeline.append({label, t_ms, t_ms + dur}); t_ms += dur *)
Cue(b, label, seg, dur) ==
  [b EXCEPT !.combined = Append(@, seg),
            !.timeline = Append(@, [label |-> label, start |-> b.t_ms,
                                    end |-> b.t_ms + dur]),
            !.t_ms = @ + dur]

(* prep(tts_cached(text, ...)) appended with its own length. *)
Say(b, text, v) ==
  Cue([b EXCEPT !.tts_requests = Append(@, text)], text, Speech(text, v),
      SegLen(Speech(text, v)))

(* Mutant of Play: the entry and the offset use the tone's length for every
   precomputed segment. *)
PlayAsBeep(b, label, seg) == Cue(b, label, seg, BeepMs)

(* A precomputed segment appended with its own length. *)
Play(b, label, seg) == Cue(b, label, seg, SegLen(seg))

(* Mutant of Gap: the silence is appended and recorded, the offset is not
   advanced. *)
GapNoAdvance(b, label, gap_ms) ==
  [Cue(b, label, Silent(gap_ms), gap_ms) EXCEPT !.t_ms = b.t_ms]

(* AudioSegment.silent(duration=gap_ms) appended and recorded as gap_ms. *)
Gap(b, label, gap_ms) == Cue(b, label, Silent(gap_ms), gap_ms)

(* Mutant of LeadIn: the gap is appended whether or not a lead-in is
   configured. *)
LeadInGapUnguarded(b, s, v) ==
  LET b1 == IF Truthy(s.lead_in) THEN Say(b, s.lead_in, v) ELSE b
  IN IF s.lead_in_gap_ms > 0
     THEN Gap(b1, "lead_gap", s.lead_in_gap_ms)
     ELSE b1

(* Lead-in (lines 240-248, 140-148). *)
LeadIn(b, s, v) ==
  IF Truthy(s.lead_in)
  THEN LET b1 == Say(b, s.lead_in, v)
       IN IF s.lead_in_gap_ms > 0
          THEN Gap(b1, "lead_gap", s.lead_in_gap_ms)
          ELSE b1
  ELSE b

(* After the final count (lines 259-270, 167-178). *)
EndPhrase(b, s, v) ==
  IF Truthy(s.end_with) THEN Say(b, s.end_with, v) ELSE b

(* Mutant of IsRestBoundary: every_n = 0 is taken as "every count". *)
IsRestBoundaryUnguarded(s, n) ==
  n % (IF s.every_n > 0 THEN s.every_n ELSE 1) = 0

IsRestBoundary(s, n) == s.every_n > 0 /\ n % s.every_n = 0

(* Mutant of NumBoundary: the skip test is off by one (<= for <). *)
NumBoundarySkipsOneMore(b, s, n, rseg, bp) ==
  IF s.every_n > 0 /\ n % s.every_n = 0
  THEN IF b.skipped_rests <= s.skip_first_rest
       THEN Gap(Play([b EXCEPT !.skipped_rests = @ + 1],
                     "beep_skip_rest", bp),
                "pause_skip_rest", IntMs(s.interval))
       ELSE Gap(Play(Play(b, s.rest_text, rseg), "beep", bp),
                "pause_long", IntMs(s.long_interval))
  ELSE Gap(Play(b, "beep", bp), "pause", IntMs(s.interval))

(* Mutant of NumBoundary: the tone of a full rest is appended before the
   rest cue. *)
NumBoundaryBeepFirst(b, s, n, rseg, bp) ==
  IF s.every_n > 0 /\ n % s.every_n = 0
  THEN IF b.skipped_rests < s.skip_first_rest
       THEN Gap(Play([b EXCEPT !.skipped_rests = @ + 1],
                     "beep_skip_rest", bp),
                "pause_skip_rest", IntMs(s.interval))
       ELSE Gap(Play(Play(b, "beep", bp), s.rest_text, rseg),
                "pause_long", IntMs(s.long_interval))
  ELSE Gap(Play(b, "beep", bp), "pause", IntMs(s.interval))

(* Mutant of NumBoundary: the rest cue is asked of tts_cached again at
   every full rest. *)
NumBoundaryResynthesizesRest(b, s, n, rseg, bp) ==
  IF IsRestBoundary(s, n)
  THEN IF b.skipped_rests < s.skip_first_rest
       THEN Gap(Play([b EXCEPT !.skipped_rests = @ + 1],
                     "beep_skip_rest", bp),
                "pause_skip_rest", IntMs(s.interval))
       ELSE Gap(Play(Say(b, s.rest_text, SegLen(rseg) \div Len(s.rest_text)),
                     "beep", bp),
                "pause_long", IntMs(s.long_interval))
  ELSE Gap(Play(b, "beep", bp), "pause", IntMs(s.interval))

(* Mutant of NumBoundary: the silence of a skipped rest is the long one. *)
NumBoundarySkipUsesLong(b, s, n, rseg, bp) ==
  IF IsRestBoundary(s, n)
  THEN IF b.skipped_rests < s.skip_first_rest
       THEN Gap(Play([b EXCEPT !.skipped_rests = @ + 1],
                     "beep_skip_rest", bp),
                "pause_skip_rest", IntMs(s.long_interval))
       ELSE Gap(Play(Play(b, s.rest_text, rseg), "beep", bp),
                "pause_long", IntMs(s.long_interval))
  ELSE Gap(Play(b, "beep", bp), "pause", IntMs(s.interval))

(* build_countdown_audio, lines 275-310. *)
NumBoundary(b, s, n, rseg, bp) ==
  IF IsRestBoundary(s, n)
  THEN IF b.skipped_rests < s.skip_first_rest
       THEN Gap(Play([b EXCEPT !.skipped_rests = @ + 1],
                     "beep_skip_rest", bp),
                "pause_skip_rest", IntMs(s.interval))
       ELSE Gap(Play(Play(b, s.rest_text, rseg), "beep", bp),
                "pause_long", IntMs(s.long_interval))
  ELSE Gap(Play(b, "beep", bp), "pause", IntMs(s.interval))

(* Mutant of NumIteration: the pass for 1 does not break and runs the
   boundary step. *)
NumIterationNoBreak(b, s, v, n, rseg, bp) ==
  LET b1 == Say(b, Str(n), v)
  IN NumBoundary(IF n = 1 THEN EndPhrase(b1, s, v) ELSE b1, s, n, rseg, bp)

(* build_countdown_audio, one pass of the loop at lines 251-310. *)
NumIteration(b, s, v, n, rseg, bp) ==
  LET b1 == Say(b, Str(n), v)
  IN IF n = 1 THEN EndPhrase(b1, s, v)
     ELSE NumBoundary(b1, s, n, rseg, bp)

(* Mutant of MinuteGap: a full minute after every minute. *)
MinuteGapAlwaysMinute(s, n) == MinuteMs

(* Mutant of MinuteGap: the short interval after every minute. *)
MinuteGapNeverMinute(s, n) == IntMs(s.interval)

(* int(60000 if should_speak_minute(i, settings) else interval * 1000) *)
MinuteGap(s, n) ==
  IF should_speak_minute(n, s) THEN MinuteMs ELSE IntMs(s.interval)

(* Mutant of MinBoundary: a skipped rest is not counted. *)
MinBoundaryForgetsCount(b, s, n, rseg, bp) ==
  IF s.every_n > 0 /\ n % s.every_n = 0
  THEN IF b.skipped_rests < s.skip_first_rest
       THEN Gap(Play(b, "beep_skip_rest", bp),
                "pause_skip_rest", MinuteGap(s, n))
       ELSE LET b1 == IF rseg # NoSeg /\ SegLen(rseg) > 0
                      THEN Play(b, s.rest_text, rseg) ELSE b
            IN Gap(Play(b1, "beep", bp), "pause_long",
                   IntMs(s.long_interval))
  ELSE Gap(Play(b, "beep", bp), "pause", MinuteGap(s, n))

(* Mutant of MinBoundary: a rest is skipped only at a minute that is not
   spoken. *)
MinBoundarySkipsOnlyUnspoken(b, s, n, rseg, bp) ==
  IF IsRestBoundary(s, n)
  THEN IF b.skipped_rests < s.skip_first_rest /\ ~should_speak_minute(n, s)
       THEN Gap(Play([b EXCEPT !.skipped_rests = @ + 1],
                     "beep_skip_rest", bp),
                "pause_skip_rest", MinuteGap(s, n))
       ELSE LET b1 == IF rseg # NoSeg /\ SegLen(rseg) > 0
                      THEN Play(b, s.rest_text, rseg) ELSE b
            IN Gap(Play(b1, "beep", bp), "pause_long",
                   IntMs(s.long_interval))
  ELSE Gap(Play(b, "beep", bp), "pause", MinuteGap(s, n))

(* build_minutes_countdown, lines 182-219. *)
MinBoundary(b, s, n, rseg, bp) ==
  IF IsRestBoundary(s, n)
  THEN IF b.skipped_rests < s.skip_first_rest
       THEN Gap(Play([b EXCEPT !.skipped_rests = @ + 1],
                     "beep_skip_rest", bp),
                "pause_skip_rest", MinuteGap(s, n))
       ELSE LET b1 == IF rseg # NoSeg /\ SegLen(rseg) > 0
                      THEN Play(b, s.rest_text, rseg) ELSE b
            IN Gap(Play(b1, "beep", bp), "pause_long",
                   IntMs(s.long_interval))
  ELSE Gap(Play(b, "beep", bp), "pause", MinuteGap(s, n))

(* Mutant of MinIteration: the test for minute 1 comes before the speech,
   so minute 1 is never spoken. *)
MinIterationBreaksEarly(b, s, v, n, rseg, bp) ==
  IF n = 1 THEN EndPhrase(b, s, v)
  ELSE MinBoundary(IF should_speak_minute(n, s)
                   THEN Say(b, MinuteText(n, s), v) ELSE b,
                   s, n, rseg, bp)

(* Mutant of MinIteration: the test for minute 1 is inside the branch of a
   spoken minute, so an unspoken minute 1 runs the boundary step and the
   end phrase is lost. *)
MinIterationBreakOnlyIfSpoken(b, s, v, n, rseg, bp) ==
  IF should_speak_minute(n, s)
  THEN LET b1 == Say(b, MinuteText(n, s), v)
       IN IF n = 1 THEN EndPhrase(b1, s, v)
          ELSE MinBoundary(b1, s, n, rseg, bp)
  ELSE MinBoundary(b, s, n, rseg, bp)

(* build_minutes_countdown, one pass of the loop at lines 151-219. *)
MinIteration(b, s, v, n, rseg, bp) ==
  LET b1 == IF should_speak_minute(n, s)
            THEN Say(b, MinuteText(n, s), v) ELSE b
  IN IF n = 1 THEN EndPhrase(b1, s, v)
     ELSE MinBoundary(b1, s, n, rseg, bp)

(* The loop of build_countdown_audio (lines 251-310) from count n down. *)
RECURSIVE RunNumbers(_, _, _, _, _, _)
RunNumbers(b, s, v, n, rseg, bp) ==
  IF n < 1 THEN b
  ELSE IF n = 1 THEN NumIteration(b, s, v, n, rseg, bp)
  ELSE RunNumbers(NumIteration(b, s, v, n, rseg, bp), s, v, n - 1, rseg, bp)

(* build_countdown_audio as a function of the settings and of the clips. *)
build_countdown_audio(s, v) ==
  RunNumbers(LeadIn(EmptyBuild(<< s.rest_text >>), s, v), s, v, s.start,
             Speech(s.rest_text, v), make_beep(s.beep_ms))

(* The loop of build_minutes_countdown (lines 151-219) from minute n down. *)
RECURSIVE RunMinutes(_, _, _, _, _, _)
RunMinutes(b, s, v, n, rseg, bp) ==
  IF n < 1 THEN b
  ELSE IF n = 1 THEN MinIteration(b, s, v, n, rseg, bp)
  ELSE RunMinutes(MinIteration(b, s, v, n, rseg, bp), s, v, n - 1, rseg, bp)

(* build_minutes_countdown as a function of the settings and of the
   clips. *)
build_minutes_countdown(s, v) ==
  RunMinutes(LeadIn(EmptyBuild(IF s.every_n > 0 THEN << s.rest_text >>
                               ELSE << >>), s, v),
             s, v, s.start,
             IF s.every_n > 0 THEN Speech(s.rest_text, v) ELSE NoSeg,
             make_beep(s.beep_ms))

(* --------------------------- speech and cache -------------------------- *)

(* No cache file / no clip. *)
Missing == 0

(* The string tts_cached hashes (line 78); the md5 digest of it names the
   cache file and is taken to be free of collisions. *)
KeyOf(lang, tld, text) == lang \o "|" \o tld \o "|" \o text

Keys == { KeyOf(l, d, x) : l \in Langs, d \in Tlds, x \in Texts }

NoTriple == << >>

(* Mutant of CacheExists: the cache file is taken to be there. *)
CacheExistsAlways(c, k) == TRUE

(* Mutant of CacheExists: the cache file is never found. *)
CacheExistsNever(c, k) == FALSE

(* mp3_path.exists() *)
CacheExists(c, k) == c[k] # Missing

(* Mutant of MoreAttempts: the loop makes one pass too many. *)
MoreAttemptsOffByOne(a) == a <= Retries

(* for attempt in range(retries): is there a pass for this value? *)
MoreAttempts(a) == a < Retries

(* Mutant of Backoff: the same wait after every failure. *)
BackoffConstant(a) == DelayMs

(* time.sleep(delay * (attempt + 1)) *)
Backoff(a) == DelayMs * (a + 1)

(* if attempt < retries - 1 *)
SleepsAfter(a) == a < Retries - 1

Event(ev, ms) == [ev |-> ev, ms |-> ms]

(* The except block (lines 68-71) after the failed attempt a. *)
AfterFailure(evs, a) ==
  IF SleepsAfter(a)
  THEN evs \o << Event("fail", 0), Event("sleep", Backoff(a)) >>
  ELSE Append(evs, Event("fail", 0))

TtsIdle ==
  /\ cache = [k \in Keys |-> Missing]
  /\ tts_pc = "idle"
  /\ tts_key = KeyOf("en", "com", "rest")
  /\ attempt = 0
  /\ events = << >>
  /\ synth_calls = [k \in Keys |-> 0]
  /\ tts_result = Missing
  /\ tts_outcome = "none"
  /\ tts_calls = 0
  /\ tts_triple = << "en", "com", "rest" >>
  /\ made_for = [k \in Keys |-> NoTriple]

(* tts_cached, lines 78-83, the cache file exists: it is loaded. *)
TtsCachedHit(lang, tld, text) ==
  LET k == KeyOf(lang, tld, text)
  IN /\ tts_pc = "idle"
     /\ tts_calls < MaxCalls
     /\ CacheExists(cache, k)
     /\ tts_key' = k
     /\ tts_triple' = << lang, tld, text >>
     /\ tts_result' = cache[k]
     /\ tts_outcome' = "hit"
     /\ events' = << >>
     /\ tts_calls' = tts_calls + 1
     /\ UNCHANGED << cache, tts_pc, attempt, synth_calls, made_for, mainVars,
                     sideVars >>

(* tts_cached, lines 78-81, no cache file: tts_with_retry_to_audiosegment
   is entered (lines 62-64). *)
TtsCachedMiss(lang, tld, text) ==
  LET k == KeyOf(lang, tld, text)
  IN /\ tts_pc = "idle"
     /\ tts_calls < MaxCalls
     /\ ~CacheExists(cache, k)
     /\ tts_key' = k
     /\ tts_triple' = << lang, tld, text >>
     /\ tts_result' = Missing
     /\ tts_outcome' = "none"
     /\ events' = << >>
     /\ attempt' = 0
     /\ tts_pc' = IF MoreAttempts(0) THEN "attempt" ELSE "raised"
     /\ tts_calls' = tts_calls + 1
     /\ UNCHANGED << cache, synth_calls, made_for, mainVars, sideVars >>

(* Lines 65-67 and 82-83: the attempt succeeds; the clip is exported to the
   cache file and the file is loaded and returned.  The clip is named by
   the number of the synthesis that made it. *)
AttemptSucceeds ==
  /\ tts_pc = "attempt"
  /\ synth_calls' = [synth_calls EXCEPT ![tts_key] = @ + 1]
  /\ cache' = [cache EXCEPT ![tts_key] = synth_calls[tts_key] + 1]
  /\ made_for' = [made_for EXCEPT ![tts_key] = tts_triple]
  /\ tts_result' = synth_calls[tts_key] + 1
  /\ tts_outcome' = "synth"
  /\ events' = Append(events, Event("ok", 0))
  /\ tts_pc' = "idle"
  /\ UNCHANGED << tts_key, attempt, tts_calls, tts_triple, mainVars,
                  sideVars >>

(* Lines 65-72: the attempt raises; the loop sleeps and goes on, or ends
   and the RuntimeError is raised. *)
AttemptFails ==
  /\ tts_pc = "attempt"
  /\ synth_calls' = [synth_calls EXCEPT ![tts_key] = @ + 1]
  /\ events' = AfterFailure(events, attempt)
  /\ attempt' = attempt + 1
  /\ tts_pc' = IF MoreAttempts(attempt + 1) THEN "attempt" ELSE "raised"
  /\ tts_outcome' = IF MoreAttempts(attempt + 1) THEN "none" ELSE "raised"
  /\ UNCHANGED << cache, tts_key, tts_result, tts_calls, tts_triple,
                  made_for, mainVars, sideVars >>

(* The RuntimeError has ended the run; a later run uses the same cache
   directory. *)
LaterRun ==
  /\ tts_pc = "raised"
  /\ tts_pc' = "idle"
  /\ UNCHANGED << cache, tts_key, attempt, events, synth_calls, tts_result,
                  tts_outcome, tts_calls, tts_triple, made_for, mainVars,
                  sideVars >>

(* ----------------- one cache entry under concurrent runs --------------- *)

(* The cache file of one key: whether the path exists, and the runs that
   have opened it for writing (seg.export, line 82) and not yet finished.
   Opening truncates the file; the entry is complete when it exists and
   nobody is writing it. *)
NoFile == [exists |-> FALSE, writers |-> {}]

Complete(f) == f.exists /\ f.writers = {}

(* seg.export(str(mp3_path)) has opened the path for writing. *)
ExportOpened(f, r) == [exists |-> TRUE, writers |-> f.writers \cup {r}]

(* The export has written the clip and the file is closed. *)
ExportClosed(f, r) == [exists |-> TRUE, writers |-> f.writers \ {r}]

(* AudioSegment.from_mp3(str(mp3_path)), line 83: what is decoded is what
   the file holds at that moment. *)
Loaded(f) == IF Complete(f) THEN "complete" ELSE "partial"

RaceIdle ==
  /\ cache_file = NoFile
  /\ run_pc = [r \in Runs |-> "call"]
  /\ run_loaded = [r \in Runs |-> "none"]

(* tts_cached, lines 78-80: the run tests whether the cache file exists. *)
RunChecks(r) ==
  /\ run_pc[r] = "call"
  /\ run_pc' = [run_pc EXCEPT ![r] = IF cache_file.exists THEN "load"
                                     ELSE "synth"]
  /\ UNCHANGED << cache_file, run_loaded, mainVars, ttsVars, served,
                  frontVars >>

(* Line 81: the synthesis returns a segment. *)
RunSynthesizes(r) ==
  /\ run_pc[r] = "synth"
  /\ run_pc' = [run_pc EXCEPT ![r] = "export"]
  /\ UNCHANGED << cache_file, run_loaded, mainVars, ttsVars, served,
                  frontVars >>

(* Line 81: the synthesis exhausts its retries and the run ends. *)
RunSynthesisRaises(r) ==
  /\ run_pc[r] = "synth"
  /\ run_pc' = [run_pc EXCEPT ![r] = "raised"]
  /\ UNCHANGED << cache_file, run_loaded, mainVars, ttsVars, served,
                  frontVars >>

(* Line 82: the export opens the cache path. *)
RunExportOpens(r) ==
  /\ run_pc[r] = "export"
  /\ cache_file' = ExportOpened(cache_file, r)
  /\ run_pc' = [run_pc EXCEPT ![r] = "writing"]
  /\ UNCHANGED << run_loaded, mainVars, ttsVars, served, frontVars >>

(* Line 82: the export finishes. *)
RunExportCloses(r) ==
  /\ run_pc[r] = "writing"
  /\ cache_file' = ExportClosed(cache_file, r)
  /\ run_pc' = [run_pc EXCEPT ![r] = "load"]
  /\ UNCHANGED << run_loaded, mainVars, ttsVars, served, frontVars >>

(* Line 83: the run loads the cache file and tts_cached returns. *)
RunLoads(r) ==
  /\ run_pc[r] = "load"
  /\ run_loaded' = [run_loaded EXCEPT ![r] = Loaded(cache_file)]
  /\ run_pc' = [run_pc EXCEPT ![r] = "returned"]
  /\ UNCHANGED << cache_file, mainVars, ttsVars, served, frontVars >>

(* ------------------------------ front-ends ---------------------------- *)

(* countdown_web.py (CountdownWebHandler.do_POST, start_generation and its
   worker generate) and countdown_gui.py (CountdownGUI.generate_countdown,
   run_generation, generation_complete, generation_error).  Requests are
   handled one at a time: the web server is a socketserver.TCPServer, which
   serves each request to the end before the next, and the GUI runs its
   handlers on the Tk main loop.  Workers are threads.  The GUI's handler
   is the command of the generate button and runs only while the button is
   enabled. *)
Fronts == {"web", "gui"}

WorkerIds == 1..MaxRequests

(* Exit codes of the builder subprocess. *)
ExitCodes == {0, 1, 2}

(* A numeric field of the GUI: IntVar.get() / DoubleVar.get() returns the
   number or raises TclError. *)
Num(v) == [ok |-> TRUE, val |-> v]

NotANumber == [ok |-> FALSE, val |-> 0]

GuiStarts == { Num(0), Num(2), NotANumber }

GuiIntervals == { Num(0), Num(1), NotANumber }

(* A form parameter of the web page: absent, or given with a value held as
   its sequence of characters. *)
Absent == [present |-> FALSE, value |-> << >>]

Given(v) == [present |-> TRUE, value |-> v]

RawOutfiles == { Absent, Given(<< >>), Given(<< " ", "o" >>), Given(<< "o" >>) }

ContentTypes == { "multipart/form-data", "application/x-www-form-urlencoded" }

(* do_POST, lines 58-77: cgi.FieldStorage keeps every field of a multipart
   body; urllib.parse.parse_qs leaves out the fields with a blank value. *)
ParseForm(content, raw) ==
  IF content = "application/x-www-form-urlencoded"
     /\ raw.present /\ raw.value = << >>
  THEN Absent ELSE raw

(* str.strip() *)
RECURSIVE LStrip(_)
LStrip(v) == IF v # << >> /\ Head(v) = " " THEN LStrip(Tail(v)) ELSE v

RECURSIVE RStrip(_)
RStrip(v) ==
  IF v # << >> /\ v[Len(v)] = " " THEN RStrip(SubSeq(v, 1, Len(v) - 1))
  ELSE v

Strip(v) == RStrip(LStrip(v))

(* "countdown_combined.mp3": the default of --outfile (builder line 339)
   and of params.get('outfile', ...) (web line 148). *)
DefaultOutfile == << "countdown_combined.mp3" >>

(* generation_status["file"] = None *)
NullFile == << "<None>" >>

(* The file the builder writes for these params: web lines 128-134 pass
   --outfile with the stripped value when that is not empty, and the
   builder falls back on its default otherwise. *)
CmdOutfile(p) ==
  IF p.present /\ Strip(p.value) # << >> THEN Strip(p.value)
  ELSE DefaultOutfile

(* outfile = params.get('outfile', ['countdown_combined.mp3'])[0] *)
StatusFile(p) == IF p.present THEN p.value ELSE DefaultOutfile

Form(start, interval, builder, outfile) ==
  [start |-> start, interval |-> interval, builder |-> builder,
   outfile |-> outfile]

GuiForms ==
  { Form(a, b, p, Absent) : a \in GuiStarts, b \in GuiIntervals,
                            p \in BOOLEAN }

WebForms ==
  { Form(Num(2), Num(1), TRUE, ParseForm(c, raw)) :
      c \in ContentTypes, raw \in RawOutfiles }

FormsOf(f) == IF f = "gui" THEN GuiForms ELSE WebForms

(* Mutant of GuiRejects: the interval is not validated. *)
GuiRejectsStartOnly(f) == ~f.start.ok \/ f.start.val <= 0

(* generate_countdown, lines 283-292: start <= 0, interval <= 0, or a
   TclError from either field. *)
GuiRejects(f) ==
  \/ ~f.start.ok
  \/ f.start.val <= 0
  \/ ~f.interval.ok
  \/ f.interval.val <= 0

(* Mutant of IsBusy: the busy test is left out. *)
IsBusyNever(flag) == FALSE

(* if CountdownWebHandler.generation_status["running"]: return
   if self.is_generating: return *)
IsBusy(flag) == flag

(* Mutant of FlagAfter: the exception path leaves the flag set. *)
FlagAfterExceptionStuck(outcome) == outcome = "except"

(* The busy flag written after an outcome of the worker: every branch
   (return code 0, other return code, except) writes False. *)
FlagAfter(outcome) == FALSE

MessageAfter(outcome) ==
  IF outcome = "ok" THEN "completed"
  ELSE IF outcome = "failed" THEN "failed"
  ELSE "error"

Alive(st) == st \in {"cmd", "run", "ok", "failed", "except"}

(* The button can be pressed: the web page is any client's; the GUI's
   button must be enabled. *)
CanRequest == front = "gui" => button = "normal"

FrontReady ==
  /\ running = FALSE
  /\ message = "Ready"
  /\ workers = [w \in WorkerIds |-> "none"]
  /\ procs = 0
  /\ callbacks = << >>
  /\ requests = 0
  /\ button = "normal"
  /\ alerts = 0
  /\ form = Form(Num(2), Num(1), TRUE, Absent)
  /\ file = NullFile
  /\ response = "none"
  /\ last_started = FALSE
  /\ params_of = [w \in WorkerIds |-> Absent]
  /\ outcome_of = [w \in WorkerIds |-> "none"]

FrontIdle == front = "web" /\ FrontReady

(* A generate request arrives while the flag is set: the handler returns
   (web line 98, gui line 280); do_POST then answers as for any request
   (lines 81-86). *)
GenerateWhileBusy ==
  /\ requests < MaxRequests
  /\ CanRequest
  /\ IsBusy(running)
  /\ \E f \in FormsOf(front) : form' = f
  /\ requests' = requests + 1
  /\ last_started' = FALSE
  /\ response' = IF front = "web" THEN "started" ELSE response
  /\ UNCHANGED << front, running, message, workers, procs, callbacks,
                  button, alerts, file, params_of, outcome_of,
                  mainVars, ttsVars, served, raceVars >>

(* The GUI finds start <= 0, interval <= 0, an unreadable number or no
   countdown_builder.py (gui lines 283-297) and returns after an error
   box. *)
GenerateRejected ==
  /\ requests < MaxRequests
  /\ front = "gui"
  /\ CanRequest
  /\ ~IsBusy(running)
  /\ \E f \in GuiForms :
       /\ GuiRejects(f) \/ ~f.builder
       /\ form' = f
  /\ requests' = requests + 1
  /\ alerts' = alerts + 1
  /\ last_started' = FALSE
  /\ UNCHANGED << front, running, message, workers, procs, callbacks,
                  button, file, response, params_of, outcome_of,
                  mainVars, ttsVars, served, raceVars >>

(* The web handler cannot read the request (do_POST, lines 56-92): it
   answers 400 with the error and start_generation is not called. *)
GenerateMalformed ==
  /\ requests < MaxRequests
  /\ front = "web"
  /\ requests' = requests + 1
  /\ response' = "error"
  /\ last_started' = FALSE
  /\ UNCHANGED << front, running, message, workers, procs, callbacks,
                  button, alerts, form, file, params_of, outcome_of,
                  mainVars, ttsVars, served, raceVars >>

(* The flag is set and the worker thread is started (web lines 100,
   167-168 and 81-86; gui lines 300-307). *)
GenerateStarts ==
  /\ requests < MaxRequests
  /\ CanRequest
  /\ ~IsBusy(running)
  /\ \E f \in FormsOf(front) :
       /\ front = "gui" => (~GuiRejects(f) /\ f.builder)
       /\ form' = f
       /\ params_of' = [params_of EXCEPT ![requests + 1] = f.outfile]
  /\ requests' = requests + 1
  /\ running' = TRUE
  /\ message' = "Generating..."
  /\ file' = NullFile
  /\ button' = IF front = "gui" THEN "disabled" ELSE button
  /\ workers' = [workers EXCEPT ![requests + 1] = "cmd"]
  /\ last_started' = TRUE
  /\ response' = IF front = "web" THEN "started" ELSE response
  /\ UNCHANGED << front, procs, callbacks, alerts, outcome_of,
                  mainVars, ttsVars, served, raceVars >>

(* The worker has built the command and subprocess.run has started the
   builder. *)
WorkerStartsBuilder(w) ==
  /\ workers[w] = "cmd"
  /\ workers' = [workers EXCEPT ![w] = "run"]
  /\ procs' = procs + 1
  /\ UNCHANGED << front, running, message, callbacks, requests, button,
                  alerts, form, file, response, last_started, params_of,
                  outcome_of, mainVars, ttsVars, served, raceVars >>

(* The builder exits and subprocess.run returns its code. *)
BuilderExits(w, code) ==
  /\ workers[w] = "run"
  /\ workers' = [workers EXCEPT ![w] = IF code = 0 THEN "ok" ELSE "failed"]
  /\ outcome_of' = [outcome_of EXCEPT ![w] = IF code = 0 THEN "ok"
                                            ELSE "failed"]
  /\ procs' = procs - 1
  /\ UNCHANGED << front, running, message, callbacks, requests, button,
                  alerts, form, file, response, last_started, params_of,
                  mainVars, ttsVars, served, raceVars >>

(* An exception while building the command, or from subprocess.run (which
   then kills and reaps the builder it had started). *)
WorkerRaises(w) ==
  /\ workers[w] \in {"cmd", "run"}
  /\ workers' = [workers EXCEPT ![w] = "except"]
  /\ outcome_of' = [outcome_of EXCEPT ![w] = "except"]
  /\ procs' = IF workers[w] = "run" THEN procs - 1 ELSE procs
  /\ UNCHANGED << front, running, message, callbacks, requests, button,
                  alerts, form, file, response, last_started, params_of,
                  mainVars, ttsVars, served, raceVars >>

(* web lines 147-165: the worker writes the status itself and ends. *)
WebWorkerReports(w) ==
  /\ front = "web"
  /\ workers[w] \in {"ok", "failed", "except"}
  /\ running' = FlagAfter(workers[w])
  /\ message' = MessageAfter(workers[w])
  /\ file' = IF workers[w] = "ok" THEN StatusFile(params_of[w])
             ELSE NullFile
  /\ workers' = [workers EXCEPT ![w] = "done"]
  /\ UNCHANGED << front, procs, callbacks, requests, button, alerts, form,
                  response, last_started, params_of, outcome_of,
                  mainVars, ttsVars, served, raceVars >>

(* gui lines 318, 321: the worker hands the outcome to the main loop with
   root.after and ends. *)
GuiWorkerReports(w) ==
  /\ front = "gui"
  /\ workers[w] \in {"ok", "failed", "except"}
  /\ callbacks' = Append(callbacks, workers[w])
  /\ workers' = [workers EXCEPT ![w] = "done"]
  /\ UNCHANGED << front, running, message, procs, requests, button, alerts,
                  form, file, response, last_started, params_of, outcome_of,
                  mainVars, ttsVars, served, raceVars >>

(* gui lines 323-350: the main loop runs generation_complete or
   generation_error, which clears the flag and enables the button. *)
GuiCallback ==
  /\ front = "gui"
  /\ callbacks # << >>
  /\ running' = FlagAfter(Head(callbacks))
  /\ message' = MessageAfter(Head(callbacks))
  /\ button' = "normal"
  /\ callbacks' = Tail(callbacks)
  /\ UNCHANGED << front, workers, procs, requests, alerts, form, file,
                  response, last_started, params_of, outcome_of,
                  mainVars, ttsVars, served, raceVars >>

(* How tts_cached served a step's clips: 0 is a cache hit, a in 1..Retries
   a synthesis that succeeded at its a-th attempt. *)
Ways == 0..Retries

(* Mutant of ClipSpeed: on a miss the freshly decoded segment is returned
   instead of the clip read back from the cache file; the re-encoding on
   export changes the length. *)
ClipSpeedOfFreshSegment(v, way) == IF way = 0 THEN v ELSE v + 1

(* The speed (ms per character) of the clip tts_cached returns, lines
   80-83: whichever branch ran and whatever the attempts, the clip is the
   one read from the cache file. *)
ClipSpeed(v, way) == v

(* The history of ways is kept only where it is followed. *)
Untracked == << -1 >>

Track(h, way) == IF h = Untracked THEN h ELSE Append(h, way)

(* ------------------------------- main --------------------------------- *)

Init ==
  /\ settings \in parse_args
  /\ voice \in Voices
  /\ pc = "main"
  /\ rc = -1
  /\ i = 0
  /\ skipped_rests = 0
  /\ combined = << >>
  /\ timeline = << >>
  /\ t_ms = 0
  /\ rest_seg = NoSeg
  /\ beep = NoSeg
  /\ tts_requests = << >>
  /\ tones_made = 0
  /\ files = << >>
  /\ error = "none"
  /\ TtsIdle
  /\ served = Untracked
  /\ RaceIdle
  /\ FrontIdle

Current == BuildState(combined, timeline, t_ms, skipped_rests, tts_requests)

Adopt(b) ==
  /\ combined' = b.combined
  /\ timeline' = b.timeline
  /\ t_ms' = b.t_ms
  /\ skipped_rests' = b.skipped_rests
  /\ tts_requests' = b.tts_requests

(* main, lines 381-385: the probe of the audio library fails. *)
MainProbeFails ==
  /\ pc = "main"
  /\ pc' = "exit"
  /\ rc' = 2
  /\ UNCHANGED << settings, voice, i, skipped_rests, combined, timeline,
                  t_ms, rest_seg, beep, tts_requests, tones_made, files,
                  error, ttsVars, sideVars >>

(* main, lines 381-396: the probe succeeds and the mode's builder is
   called. *)
MainChoosesBuilder ==
  /\ pc = "main"
  /\ pc' = IF settings.mode = "minutes" THEN "minutes" ELSE "numbers"
  /\ UNCHANGED << settings, voice, rc, i, skipped_rests, combined, timeline,
                  t_ms, rest_seg, beep, tts_requests, tones_made, files,
                  error, ttsVars, sideVars >>

(* build_countdown_audio, lines 229-248: assets and lead-in. *)
NumbersStart ==
  /\ pc = "numbers"
  /\ \E way \in Ways :
       /\ rest_seg' = Speech(settings.rest_text, ClipSpeed(voice, way))
       /\ Adopt(LeadIn(EmptyBuild(<< settings.rest_text >>), settings,
                       ClipSpeed(voice, way)))
       /\ served' = Track(served, way)
  /\ beep' = make_beep(settings.beep_ms)
  /\ tones_made' = tones_made + 1
  /\ i' = settings.start
  /\ pc' = IF settings.start >= 1 THEN "numbers_loop" ELSE "built"
  /\ UNCHANGED << settings, voice, rc, files,
                  error, ttsVars, raceVars, frontVars >>

(* build_countdown_audio, lines 251-314: one pass of the loop; the pass
   for 1 breaks out and the builder returns. *)
NumbersStep ==
  /\ pc = "numbers_loop"
  /\ \E way \in Ways :
       /\ Adopt(NumIteration(Current, settings, ClipSpeed(voice, way), i,
                             rest_seg, beep))
       /\ served' = Track(served, way)
  /\ i' = IF i = 1 THEN i ELSE i - 1
  /\ pc' = IF i = 1 THEN "built" ELSE "numbers_loop"
  /\ UNCHANGED << settings, voice, rc, rest_seg, beep, tones_made, files,
                  error, ttsVars, raceVars, frontVars >>

(* build_minutes_countdown, lines 129-148: assets and lead-in. *)
MinutesStart ==
  /\ pc = "minutes"
  /\ \E way \in Ways :
       /\ rest_seg' = IF settings.every_n > 0
                      THEN Speech(settings.rest_text, ClipSpeed(voice, way))
                      ELSE NoSeg
       /\ Adopt(LeadIn(EmptyBuild(IF settings.every_n > 0
                                  THEN << settings.rest_text >> ELSE << >>),
                       settings, ClipSpeed(voice, way)))
       /\ served' = Track(served, way)
  /\ beep' = make_beep(settings.beep_ms)
  /\ tones_made' = tones_made + 1
  /\ i' = settings.start
  /\ pc' = IF settings.start >= 1 THEN "minutes_loop" ELSE "built"
  /\ UNCHANGED << settings, voice, rc, files,
                  error, ttsVars, raceVars, frontVars >>

(* build_minutes_countdown, lines 151-221: one pass of the loop. *)
MinutesStep ==
  /\ pc = "minutes_loop"
  /\ \E way \in Ways :
       /\ Adopt(MinIteration(Current, settings, ClipSpeed(voice, way), i,
                             rest_seg, beep))
       /\ served' = Track(served, way)
  /\ i' = IF i = 1 THEN i ELSE i - 1
  /\ pc' = IF i = 1 THEN "built" ELSE "minutes_loop"
  /\ UNCHANGED << settings, voice, rc, rest_seg, beep, tones_made, files,
                  error, ttsVars, raceVars, frontVars >>

(* main, lines 399-401: the intermediate WAV export. *)
ExportWav ==
  /\ pc = "built"
  /\ files' = Append(files, "combined.wav")
  /\ pc' = "wav"
  /\ UNCHANGED << settings, voice, rc, i, skipped_rests, combined, timeline,
                  t_ms, rest_seg, beep, tts_requests, tones_made,
                  error, ttsVars, sideVars >>

(* main, lines 402-404: the MP3 export to outfile. *)
ExportMp3 ==
  /\ pc = "wav"
  /\ files' = Append(files, "outfile.mp3")
  /\ pc' = "mp3"
  /\ UNCHANGED << settings, voice, rc, i, skipped_rests, combined, timeline,
                  t_ms, rest_seg, beep, tts_requests, tones_made,
                  error, ttsVars, sideVars >>

(* main, lines 407-414: the timeline sidecar, then return 0. *)
WriteTimeline ==
  /\ pc = "mp3"
  /\ files' = Append(files, "outfile.json")
  /\ pc' = "exit"
  /\ rc' = 0
  /\ UNCHANGED << settings, voice, i, skipped_rests, combined, timeline,
                  t_ms, rest_seg, beep, tts_requests, tones_made,
                  error, ttsVars, sideVars >>

(* The texts an assembler step asks tts_cached for, in order. *)
StepRequests(before, after) ==
  SubSeq(after.tts_requests, Len(before.tts_requests) + 1,
         Len(after.tts_requests))

(* Mutant of OnTtsError: main catches the error and goes on to export. *)
OnTtsErrorSwallowed == "built"

(* Where main is after tts_cached has raised inside an assembler: neither
   the assembler nor main (lines 390-396) catches the RuntimeError. *)
OnTtsError == "raised"

Raise(cause, to) ==
  /\ pc' = to
  /\ error' = cause
  /\ rc' = 1

(* build_countdown_audio, lines 229-248: tts_cached raises for the rest
   text (before the tone is made) or for the lead-in. *)
NumbersStartRaises ==
  /\ pc = "numbers"
  /\ LET r == LeadIn(EmptyBuild(<< settings.rest_text >>), settings,
                     voice).tts_requests
     IN \E k \in 1..Len(r) :
          /\ tts_requests' = SubSeq(r, 1, k)
          /\ tones_made' = IF k = 1 THEN tones_made ELSE tones_made + 1
  /\ Raise("tts", OnTtsError)
  /\ UNCHANGED << settings, voice, i, skipped_rests, combined, timeline,
                  t_ms, rest_seg, beep, files, ttsVars, sideVars >>

(* build_countdown_audio, lines 251-270: tts_cached raises for the count or
   for the end phrase. *)
NumbersStepRaises ==
  /\ pc = "numbers_loop"
  /\ LET r == StepRequests(Current, NumIteration(Current, settings, voice, i,
                                                 rest_seg, beep))
     IN \E k \in 1..Len(r) : tts_requests' = tts_requests \o SubSeq(r, 1, k)
  /\ Raise("tts", OnTtsError)
  /\ UNCHANGED << settings, voice, i, skipped_rests, combined, timeline,
                  t_ms, rest_seg, beep, tones_made, files, ttsVars, sideVars >>

(* build_minutes_countdown, lines 129-148: tts_cached raises for the rest
   text (before the tone is made) or for the lead-in. *)
MinutesStartRaises ==
  /\ pc = "minutes"
  /\ LET first == IF settings.every_n > 0 THEN << settings.rest_text >>
                  ELSE << >>
         r == LeadIn(EmptyBuild(first), settings, voice).tts_requests
     IN \E k \in 1..Len(r) :
          /\ tts_requests' = SubSeq(r, 1, k)
          /\ tones_made' = IF settings.every_n > 0 /\ k = 1
                           THEN tones_made ELSE tones_made + 1
  /\ Raise("tts", OnTtsError)
  /\ UNCHANGED << settings, voice, i, skipped_rests, combined, timeline,
                  t_ms, rest_seg, beep, files, ttsVars, sideVars >>

(* build_minutes_countdown, lines 151-178: tts_cached raises for the minute
   or for the end phrase. *)
MinutesStepRaises ==
  /\ pc = "minutes_loop"
  /\ LET r == StepRequests(Current, MinIteration(Current, settings, voice, i,
                                                 rest_seg, beep))
     IN \E k \in 1..Len(r) : tts_requests' = tts_requests \o SubSeq(r, 1, k)
  /\ Raise("tts", OnTtsError)
  /\ UNCHANGED << settings, voice, i, skipped_rests, combined, timeline,
                  t_ms, rest_seg, beep, tones_made, files, ttsVars, sideVars >>

(* main, lines 399-401: the WAV export raises; the file is in a temporary
   directory that is removed. *)
ExportWavRaises ==
  /\ pc = "built"
  /\ Raise("wav", "raised")
  /\ UNCHANGED << settings, voice, i, skipped_rests, combined, timeline,
                  t_ms, rest_seg, beep, tts_requests, tones_made, files,
                  ttsVars, sideVars >>

(* Mutant of OnExportError: main goes on to the sidecar after a failed
   export. *)
OnExportErrorGoesOn == "mp3"

(* Where main is after the MP3 export has raised: nothing in main (lines
   398-409) catches the error, so the lines after it are not reached. *)
OnExportError == "raised"

(* main, lines 402-404: reading the WAV back, creating the output directory
   or the MP3 export raises; the export may already have created
   outfile. *)
ExportMp3Raises ==
  /\ pc = "wav"
  /\ \E created \in BOOLEAN :
       files' = IF created THEN Append(files, "outfile.mp3") ELSE files
  /\ Raise("mp3", OnExportError)
  /\ UNCHANGED << settings, voice, i, skipped_rests, combined, timeline,
                  t_ms, rest_seg, beep, tts_requests, tones_made, ttsVars, sideVars >>

(* main, lines 407-409: the sidecar cannot be opened for writing. *)
WriteTimelineRaises ==
  /\ pc = "mp3"
  /\ Raise("json", "raised")
  /\ UNCHANGED << settings, voice, i, skipped_rests, combined, timeline,
                  t_ms, rest_seg, beep, tts_requests, tones_made, files,
                  ttsVars, sideVars >>

Next ==
  \/ MainProbeFails
  \/ NumbersStartRaises
  \/ NumbersStepRaises
  \/ MinutesStartRaises
  \/ MinutesStepRaises
  \/ ExportWavRaises
  \/ ExportMp3Raises
  \/ WriteTimelineRaises
  \/ MainChoosesBuilder
  \/ NumbersStart
  \/ NumbersStep
  \/ MinutesStart
  \/ MinutesStep
  \/ ExportWav
  \/ ExportMp3
  \/ WriteTimeline

Spec == Init /\ [][Next]_vars

(* The speech cache on its own: a sequence of tts_cached calls, over runs
   that share one cache directory. *)
MainIdle ==
  /\ settings = SettingsOf("numbers", 1, <<3, 7>>, 0, 0, <<None, 1000>>,
                           None, <<0, NoSpeakAt>>)
  /\ voice = 1
  /\ pc = "main"
  /\ rc = -1
  /\ i = 0
  /\ skipped_rests = 0
  /\ combined = << >>
  /\ timeline = << >>
  /\ t_ms = 0
  /\ rest_seg = NoSeg
  /\ beep = NoSeg
  /\ tts_requests = << >>
  /\ tones_made = 0
  /\ files = << >>
  /\ error = "none"

InitTts == MainIdle /\ TtsIdle /\ served = Untracked /\ RaceIdle /\ FrontIdle

NextTts ==
  \/ \E l \in Langs, d \in Tlds, x \in Texts : TtsCachedHit(l, d, x)
  \/ \E l \in Langs, d \in Tlds, x \in Texts : TtsCachedMiss(l, d, x)
  \/ AttemptSucceeds
  \/ AttemptFails
  \/ LaterRun

SpecTts == InitTts /\ [][NextTts]_vars

(* Assembly with the serving of every step followed, over small
   countdowns. *)
MaxServedStart == 2

ServedSettings ==
  { s \in parse_args :
      /\ s.start <= MaxServedStart
      /\ s.interval > 0 /\ s.long_interval > 0
      /\ s.every_n \in {0, 2}
      /\ s.skip_first_rest = 0
      /\ s.speak_interval = 0 }

InitServed ==
  /\ settings \in ServedSettings
  /\ voice \in Voices
  /\ pc = "main"
  /\ rc = -1
  /\ i = 0
  /\ skipped_rests = 0
  /\ combined = << >>
  /\ timeline = << >>
  /\ t_ms = 0
  /\ rest_seg = NoSeg
  /\ beep = NoSeg
  /\ tts_requests = << >>
  /\ tones_made = 0
  /\ files = << >>
  /\ error = "none"
  /\ TtsIdle
  /\ served = << >>
  /\ RaceIdle
  /\ FrontIdle

SpecServed == InitServed /\ [][Next]_vars

(* Runs that call tts_cached for one key at the same time. *)
InitRace == MainIdle /\ TtsIdle /\ served = Untracked /\ RaceIdle /\ FrontIdle

NextRace ==
  \E r \in Runs :
    \/ RunChecks(r)
    \/ RunSynthesizes(r)
    \/ RunSynthesisRaises(r)
    \/ RunExportOpens(r)
    \/ RunExportCloses(r)
    \/ RunLoads(r)

SpecRace == InitRace /\ [][NextRace]_vars

(* A front-end and its workers. *)
InitFront ==
  /\ MainIdle /\ TtsIdle /\ served = Untracked /\ RaceIdle
  /\ front \in Fronts
  /\ FrontReady

WorkerStep ==
  \E w \in WorkerIds :
    \/ WorkerStartsBuilder(w)
    \/ \E code \in ExitCodes : BuilderExits(w, code)
    \/ WorkerRaises(w)
    \/ WebWorkerReports(w)
    \/ GuiWorkerReports(w)

NextFront ==
  \/ GenerateWhileBusy
  \/ GenerateRejected
  \/ GenerateMalformed
  \/ GenerateStarts
  \/ WorkerStep
  \/ GuiCallback

SpecFront == InitFront /\ [][NextFront]_vars

(* Threads are scheduled, the builder terminates, and the Tk main loop
   runs its callbacks. *)
FairSpecFront ==
  SpecFront /\ WF_vars(WorkerStep) /\ WF_vars(GuiCallback)

(* ------------------------- reading a timeline ------------------------- *)

Labels(tl) == [k \in 1..Len(tl) |-> tl[k].label]

Duration(e) == e.end - e.start

Built == pc \in {"built", "wav", "mp3"} \/ (pc = "exit" /\ rc = 0)

Numbers == settings.mode = "numbers"

Minutes == settings.mode = "minutes"

HasLabel(tl, l) == \E k \in 1..Len(tl) : tl[k].label = l

IndexOf(tl, l) == CHOOSE k \in 1..Len(tl) : tl[k].label = l

CountOf(tl, l) == Cardinality({k \in 1..Len(tl) : tl[k].label = l})

(* The positions of the tones, in order: one per boundary. *)
BeepIndices(tl) ==
  SelectSeq([k \in 1..Len(tl) |-> k],
            LAMBDA k : tl[k].label \in {"beep", "beep_skip_rest"})

LabelAt(tl, k) == IF k \in 1..Len(tl) THEN tl[k].label ELSE "<absent>"

(* What the entries around the tone at position k say the boundary was. *)
ObservedKind(tl, k, s) ==
  IF /\ tl[k].label = "beep_skip_rest"
     /\ LabelAt(tl, k + 1) = "pause_skip_rest"
     /\ LabelAt(tl, k - 1) # s.rest_text
  THEN "skipped"
  ELSE IF /\ tl[k].label = "beep"
          /\ LabelAt(tl, k + 1) = "pause_long"
          /\ LabelAt(tl, k - 1) = s.rest_text
  THEN "full"
  ELSE IF /\ tl[k].label = "beep"
          /\ LabelAt(tl, k + 1) = "pause"
          /\ LabelAt(tl, k - 1) # s.rest_text
  THEN "normal"
  ELSE "malformed"

(* The rest boundaries, from the settings alone. *)
RestCount(s, n) == s.every_n > 0 /\ n % s.every_n = 0

RestCounts(s) == {n \in 2..s.start : RestCount(s, n)}

EarlierRests(s, n) == Cardinality({m \in (n + 1)..s.start : RestCount(s, m)})

ExpectedKind(s, n) ==
  IF ~RestCount(s, n) THEN "normal"
  ELSE IF EarlierRests(s, n) < s.skip_first_rest THEN "skipped"
  ELSE "full"

Min(a, b) == IF a < b THEN a ELSE b

(* A configuration the specification calls valid: a positive start and
   interval, and no negative rest interval. *)
ValidConfig(s) == s.start >= 1 /\ s.interval > 0 /\ s.long_interval >= 0

(* ------------------------------ claims -------------------------------- *)

(* C1: in every timeline an assembler holds or returns, consecutive entries
   are contiguous (entries[k+1].start = entries[k].end) and the first
   entry starts at 0. *)
C1_Contiguous ==
  /\ \A k \in 1..(Len(timeline) - 1) : timeline[k + 1].start = timeline[k].end
  /\ Len(timeline) > 0 => timeline[1].start = 0

(* A minutes build has returned a timeline with a lead-in, its gap, and a
   full rest cue. *)
C1_Witness ==
  /\ Built /\ Minutes
  /\ HasLabel(timeline, "lead_gap")
  /\ HasLabel(timeline, "pause_long")
  /\ Len(timeline) >= 8

(* C2: for every valid configuration, in both modes, after every append the
   end of the entry just recorded is the length of the track so far, the
   running offset is the length of the track, and when the build returns
   the final entry's end is the total duration of the track.  A minutes
   build whose only minute is unspoken, with no lead-in and no end phrase,
   returns no entry at all, and then the track is empty. *)
C2_EndIsTrackLength ==
  ValidConfig(settings) =>
    /\ Len(timeline) = Len(combined)
    /\ \A k \in 1..Len(timeline) :
         timeline[k].end = TrackLen(SubSeq(combined, 1, k))
    /\ t_ms = TrackLen(combined)
    /\ (Built => IF Len(timeline) > 0
                 THEN timeline[Len(timeline)].end = TrackLen(combined)
                 ELSE TrackLen(combined) = 0)

(* A valid numbers build has returned, with a rest cue and an end phrase
   in its track. *)
C2_Witness ==
  /\ Built /\ Numbers /\ ValidConfig(settings)
  /\ HasLabel(timeline, settings.rest_text)
  /\ Truthy(settings.end_with)
  /\ timeline[Len(timeline)].end = TrackLen(combined)
  /\ TrackLen(combined) > 0

(* C3: every segment appended to the track has exactly one timeline entry,
   whose end is its start plus the duration of that segment, the start
   being the offset before the append and the end the offset after it. *)
C3_PairedAppends ==
  /\ Len(timeline) = Len(combined)
  /\ \A k \in 1..Len(timeline) :
       /\ timeline[k].end = timeline[k].start + SegLen(combined[k])
       /\ timeline[k].start = TrackLen(SubSeq(combined, 1, k - 1))
  /\ t_ms = TrackLen(combined)

(* C4: the running offset never decreases: every entry, whose start is the
   offset before its append and whose end is the offset after it, has
   end >= start, and no step of an assembler lowers t_ms. *)
C4_OffsetNeverDecreases ==
  /\ \A k \in 1..Len(timeline) : timeline[k].end >= timeline[k].start
  /\ \A k \in 1..Len(timeline) : timeline[k].end <= t_ms

(* C5: numbers mode with every_n = 0, no lead-in and no end phrase, for a
   start N >= 1, gives the labels N, beep, pause, ..., 2, beep, pause, 1;
   start = 3 gives "3","beep","pause","2","beep","pause","1". *)
RECURSIVE CountdownLabels(_)
CountdownLabels(n) ==
  IF n = 1 THEN << "1" >>
  ELSE << Str(n), "beep", "pause" >> \o CountdownLabels(n - 1)

PlainNumbers ==
  /\ Numbers /\ settings.every_n = 0 /\ settings.start >= 1
  /\ ~Truthy(settings.lead_in) /\ ~Truthy(settings.end_with)

C5_PlainCountdownLabels ==
  (Built /\ PlainNumbers) =>
    /\ Labels(timeline) = CountdownLabels(settings.start)
    /\ settings.start = 3 =>
         Labels(timeline) = << "3", "beep", "pause", "2", "beep", "pause", "1" >>

C5_Witness ==
  /\ Built /\ PlainNumbers /\ settings.start = 3
  /\ Labels(timeline) = << "3", "beep", "pause", "2", "beep", "pause", "1" >>

(* C6 as stated: numbers mode, start = 8, every_n = 4, skip_first_rest = 1:
   the boundary at i = 4 is labeled beep_skip_rest / pause_skip_rest. *)
EightByFour ==
  /\ Numbers /\ settings.start = 8 /\ settings.every_n = 4
  /\ settings.skip_first_rest = 1

C6_SkipAtFour ==
  (Built /\ EightByFour) =>
    LET k == IndexOf(timeline, "4")
    IN /\ timeline[k + 1].label = "beep_skip_rest"
       /\ timeline[k + 2].label = "pause_skip_rest"

(* C6 amended: with start = 8, every_n = 4, skip_first_rest = 1 the first
   rest boundary is the one at i = 8: it is labeled beep_skip_rest /
   pause_skip_rest, and the next one, at i = 4, is a true rest cue (rest
   speech, beep, pause_long). *)
C6_SkipAtEightRestAtFour ==
  (Built /\ EightByFour) =>
    LET k == IndexOf(timeline, "8")
        m == IndexOf(timeline, "4")
    IN /\ timeline[k + 1].label = "beep_skip_rest"
       /\ timeline[k + 2].label = "pause_skip_rest"
       /\ timeline[m + 1].label = settings.rest_text
       /\ timeline[m + 2].label = "beep"
       /\ timeline[m + 3].label = "pause_long"
       /\ CountOf(timeline, "beep_skip_rest") = 1
       /\ CountOf(timeline, "pause_long") = 1

C6_Witness ==
  /\ Built /\ EightByFour
  /\ timeline[IndexOf(timeline, "8") + 1].label = "beep_skip_rest"
  /\ timeline[IndexOf(timeline, "4") + 3].label = "pause_long"

(* C7: in both modes, taking the rest boundaries in the descending order
   they are reached, exactly the first min(skip_first_rest, number of rest
   boundaries) are skipped rests (beep_skip_rest, pause_skip_rest, no rest
   speech), every later one is a full rest cue, and no skipped rest
   follows a full rest. *)
C7_FirstRestsSkipped ==
  LET bi == BeepIndices(timeline)
      n(j) == settings.start - j + 1
      kind(j) == ObservedKind(timeline, bi[j], settings)
  IN /\ \A j \in 1..Len(bi) :
          RestCount(settings, n(j)) =>
            /\ kind(j) = ExpectedKind(settings, n(j))
            /\ kind(j) \in {"skipped", "full"}
     /\ \A j, l \in 1..Len(bi) :
          (j < l /\ kind(j) = "full") => kind(l) # "skipped"
     /\ Built =>
          /\ Len(bi) = Cardinality(2..settings.start)
          /\ CountOf(timeline, "beep_skip_rest")
               = Min(settings.skip_first_rest,
                     Cardinality(RestCounts(settings)))
          /\ CountOf(timeline, "pause_skip_rest")
               = CountOf(timeline, "beep_skip_rest")
          /\ CountOf(timeline, "pause_long")
               = Cardinality(RestCounts(settings))
                   - CountOf(timeline, "beep_skip_rest")

(* A minutes build with four rest boundaries, two of them skipped and two
   full, has returned. *)
C7_Witness ==
  /\ Built /\ Minutes
  /\ settings.skip_first_rest = 2
  /\ Cardinality(RestCounts(settings)) = 4
  /\ CountOf(timeline, "beep_skip_rest") = 2
  /\ CountOf(timeline, "pause_long") = 2

(* C8: a full rest boundary appends, adjacent and in this order, the rest
   speech, a tone labeled beep, and a silence labeled pause_long of
   int(long_interval * 1000) ms; in minutes mode too, whether or not the
   boundary's minute is spoken. *)
C8_FullRestCue ==
  LET bi == BeepIndices(timeline)
  IN /\ \A j \in 1..Len(bi) :
          ExpectedKind(settings, settings.start - j + 1) = "full" =>
            /\ LabelAt(timeline, bi[j] - 1) = settings.rest_text
            /\ timeline[bi[j]].label = "beep"
            /\ LabelAt(timeline, bi[j] + 1) = "pause_long"
            /\ Duration(timeline[bi[j] + 1]) = IntMs(settings.long_interval)
     /\ \A k \in 1..Len(timeline) :
          timeline[k].label \in {"pause_long", settings.rest_text} =>
            \E j \in 1..Len(bi) :
              /\ ExpectedKind(settings, settings.start - j + 1) = "full"
              /\ k \in {bi[j] - 1, bi[j] + 1}

(* A minutes build has returned with a full rest at a minute that is
   spoken and a full rest at a minute that is not. *)
C8_Witness ==
  /\ Built /\ Minutes
  /\ \E a, c \in RestCounts(settings) :
       /\ ExpectedKind(settings, a) = "full"
       /\ ExpectedKind(settings, c) = "full"
       /\ should_speak_minute(a, settings)
       /\ ~should_speak_minute(c, settings)
  /\ CountOf(timeline, "pause_long") >= 2

(* C9: with every_n = 0, for every skip_first_rest, every boundary is a
   normal one: no rest cue, no pause_long, no beep_skip_rest and no
   pause_skip_rest entry. *)
C9_NoRestsWhenDisabled ==
  settings.every_n = 0 =>
    /\ \A k \in 1..Len(timeline) :
         timeline[k].label \notin
           {settings.rest_text, "pause_long", "beep_skip_rest",
            "pause_skip_rest"}
    /\ \A j \in 1..Len(BeepIndices(timeline)) :
         ObservedKind(timeline, BeepIndices(timeline)[j], settings) = "normal"
    /\ skipped_rests = 0

(* A build with every_n = 0 and skip_first_rest = 2 has returned after at
   least two boundaries. *)
C9_Witness ==
  /\ Built /\ settings.every_n = 0 /\ settings.skip_first_rest = 2
  /\ settings.start >= 3
  /\ CountOf(timeline, "beep") >= 2

(* C10: a run with start <= 0 or interval <= 0 is rejected before any
   synthesis, tone generation or file write, and produces no output
   file. *)
C10_BadConfigRejected ==
  (settings.start <= 0 \/ settings.interval <= 0) =>
    /\ tts_requests = << >>
    /\ tones_made = 0
    /\ files = << >>
    /\ rc # 0

(* ----------------------- claims on synthesis --------------------------- *)

Fails(evs) == Cardinality({p \in 1..Len(evs) : evs[p].ev = "fail"})

Oks(evs) == Cardinality({p \in 1..Len(evs) : evs[p].ev = "ok"})

FailsBefore(evs, p) == Cardinality({q \in 1..p : evs[q].ev = "fail"})

(* C11: for one text at most `retries` synthesis attempts are made; the
   first successful attempt ends the call, which returns its clip; the
   RuntimeError is raised only when all `retries` attempts have failed,
   and then the call returns nothing and stores nothing. *)
C11_AtMostRetriesAttempts ==
  /\ Fails(events) + Oks(events) <= Retries
  /\ \A p \in 1..Len(events) : events[p].ev = "ok" => p = Len(events)
  /\ tts_outcome = "synth" =>
       /\ Oks(events) = 1
       /\ tts_pc = "idle"
       /\ tts_result # Missing
       /\ tts_result = cache[tts_key]
  /\ tts_pc = "raised" => tts_outcome = "raised"
  /\ tts_outcome = "raised" =>
       /\ Fails(events) = Retries
       /\ Oks(events) = 0
       /\ tts_result = Missing
       /\ cache[tts_key] = Missing

(* All three attempts for a text have failed and the error is raised. *)
C11_Witness ==
  /\ tts_pc = "raised"
  /\ Fails(events) = Retries
  /\ tts_calls >= 2

(* C12: the wait after the k-th failed attempt is delay * k, so the waits
   strictly increase; a wait separates any two attempts; no wait follows
   the last failed attempt before the error is raised. *)
C12_IncreasingBackoff ==
  /\ \A p \in 1..Len(events) :
       /\ events[p].ev = "sleep" =>
            /\ p > 1 /\ events[p - 1].ev = "fail"
            /\ events[p].ms = DelayMs * FailsBefore(events, p)
       /\ (events[p].ev \in {"fail", "ok"} /\ p > 1) =>
            events[p - 1].ev = "sleep"
  /\ \A p, q \in 1..Len(events) :
       (p < q /\ events[p].ev = "sleep" /\ events[q].ev = "sleep") =>
         events[p].ms < events[q].ms
  /\ (Len(events) > 0 /\ events[Len(events)].ev = "sleep") =>
       tts_pc = "attempt"
  /\ tts_outcome = "raised" => events[Len(events)].ev = "fail"

C12_Witness ==
  /\ tts_outcome = "raised"
  /\ events = << Event("fail", 0), Event("sleep", 1200), Event("fail", 0),
                 Event("sleep", 2400), Event("fail", 0) >>

(* C13: once tts_cached has succeeded for a (lang, tld, text) triple, no
   later call for it, in the same run or a later one, makes a synthesis
   call or changes the stored entry; a call that finds the entry returns
   it; a text is synthesized successfully at most once. *)
C13_NoResynthesis ==
  /\ [][\A k \in Keys :
          cache[k] # Missing =>
            /\ synth_calls'[k] = synth_calls[k]
            /\ cache'[k] = cache[k]]_vars
  /\ [](tts_outcome = "hit" =>
          /\ tts_result # Missing
          /\ tts_result = cache[tts_key])
  /\ [](\A k \in Keys : cache[k] \in {Missing, synth_calls[k]})

(* The first call for a key raised; a later run synthesized the entry on
   its second attempt; a third call is served from the cache. *)
C13_Witness ==
  /\ tts_outcome = "hit"
  /\ tts_result = 5
  /\ synth_calls[tts_key] = 5

(* ------------------------- claims on main ------------------------------ *)

Wrote(f) == InSeq(f, files)

Ended == pc \in {"exit", "raised"}

(* C14: if a synthesis exhausts its retries, main writes neither the audio
   file nor the sidecar; files are written only after the assembler has
   returned. *)
C14_NoFilesAfterSynthesisFailure ==
  /\ error = "tts" => (files = << >> /\ ~Built)
  /\ files # << >> =>
       /\ error # "tts"
       /\ pc \in {"wav", "mp3", "exit", "raised"}

(* A synthesis has failed in the middle of a build. *)
C14_Witness ==
  /\ error = "tts" /\ pc = "raised"
  /\ Len(timeline) >= 3
  /\ files = << >>

(* C15: after any run of main, whatever step failed, the audio file and the
   sidecar have both been written or neither has. *)
C15_BothFilesOrNeither ==
  Ended => (Wrote("outfile.mp3") <=> Wrote("outfile.json"))

(* --------------------- claims on the minute policy --------------------- *)

(* The policy as the specification words it. *)
SpeakSet(s) == {s.speak_at[k] : k \in 1..Len(s.speak_at)}

ExpectedSpeak(m, s) ==
  IF SpeakSet(s) # {} THEN m \in SpeakSet(s)
  ELSE IF s.speak_interval > 0 THEN (m % s.speak_interval = 0 \/ m = 1)
  ELSE TRUE

(* The label of the speech entry of a count. *)
CountLabel(n) ==
  IF Numbers THEN Str(n)
  ELSE IF n = 1 THEN "1 minute remaining"
  ELSE Str(n) \o " minutes remaining"

(* C16: should_speak_minute is true exactly when the explicit set is
   configured and contains the minute; otherwise when speak_interval > 0
   and the minute is a multiple of it or is 1; otherwise always.  With
   both configured the set alone decides.  A minutes build speaks exactly
   the minutes for which it is true. *)
C16_ShouldSpeakMinute ==
  /\ \A m \in 1..(MaxStart + 1) :
       should_speak_minute(m, settings) <=> ExpectedSpeak(m, settings)
  /\ (Built /\ Minutes) =>
       \A m \in 1..settings.start :
         HasLabel(timeline, CountLabel(m)) <=> ExpectedSpeak(m, settings)

(* Both policies are configured, the set does not hold minute 1, and the
   build has not spoken minute 1 nor minute 3 (a multiple of the
   interval). *)
C16_Witness ==
  /\ Built /\ Minutes
  /\ settings.speak_at = <<4, 2>> /\ settings.speak_interval = 3
  /\ settings.start >= 4
  /\ ~HasLabel(timeline, "1 minute remaining")
  /\ ~HasLabel(timeline, "3 minutes remaining")
  /\ HasLabel(timeline, "4 minutes remaining")

(* C17: no Settings value has both a non-empty speak_at and a
   speak_interval > 0. *)
C17_AtMostOnePolicy ==
  ~(Len(settings.speak_at) > 0 /\ settings.speak_interval > 0)

(* C18: in numbers mode, and in minutes mode with speak_interval = 0 and no
   explicit set, every count from start down to 1 has exactly one speech
   entry, and these appear in strictly descending order of count. *)
SpeaksAll ==
  \/ Numbers
  \/ Minutes /\ settings.speak_interval = 0 /\ settings.speak_at = NoSpeakAt

CountEntries(tl) ==
  SelectSeq(Labels(tl),
            LAMBDA l : \E n \in 1..(MaxStart + 1) : l = CountLabel(n))

C18_EveryCountSpokenOnce ==
  (Built /\ SpeaksAll /\ settings.start >= 1) =>
    CountEntries(timeline)
      = [j \in 1..settings.start |-> CountLabel(settings.start - j + 1)]

C18_Witness ==
  /\ Built /\ Minutes /\ SpeaksAll
  /\ settings.start = 4 /\ settings.every_n = 2
  /\ CountEntries(timeline)
       = << "4 minutes remaining", "3 minutes remaining",
            "2 minutes remaining", "1 minute remaining" >>

(* C19 as stated: minutes mode, speak_at = [5,1], start = 5: only minutes 5
   and 1 have speech entries, and the boundaries of minutes 4, 3, 2 have a
   tone and a silence of int(interval * 1000) ms. *)
FiveOne ==
  /\ Minutes /\ settings.speak_at = <<5, 1>> /\ settings.start = 5

OnlyFiveAndOneSpoken ==
  /\ HasLabel(timeline, "5 minutes remaining")
  /\ HasLabel(timeline, "1 minute remaining")
  /\ \A n \in 2..4 : ~HasLabel(timeline, Str(n) \o " minutes remaining")
  /\ Cardinality({k \in 1..Len(timeline) :
                    combined[k].kind = "speech"
                    /\ timeline[k].label \notin
                         {settings.lead_in, settings.end_with,
                          settings.rest_text}}) = 2

(* The tone and the silence of the boundary of minute n. *)
ToneIndex(n) == BeepIndices(timeline)[settings.start - n + 1]

HasToneAndSilence(n) ==
  /\ combined[ToneIndex(n)].kind = "tone"
  /\ combined[ToneIndex(n) + 1].kind = "silence"

C19_ShortIntervalBetween ==
  (Built /\ FiveOne) =>
    /\ OnlyFiveAndOneSpoken
    /\ \A n \in 2..4 :
         /\ HasToneAndSilence(n)
         /\ Duration(timeline[ToneIndex(n) + 1]) = IntMs(settings.interval)

(* C19 amended: ... the boundaries of minutes 4, 3, 2 have a tone and a
   silence of int(interval * 1000) ms, except a boundary that is a full
   rest (every_n divides the minute and the skips are used up), whose
   silence is int(long_interval * 1000) ms. *)
C19_ShortIntervalUnlessRest ==
  (Built /\ FiveOne) =>
    /\ OnlyFiveAndOneSpoken
    /\ \A n \in 2..4 :
         /\ HasToneAndSilence(n)
         /\ Duration(timeline[ToneIndex(n) + 1])
              = IF ExpectedKind(settings, n) = "full"
                THEN IntMs(settings.long_interval)
                ELSE IntMs(settings.interval)

(* Such a build has returned, with a full rest at minute 4 and short
   silences after minutes 3 and 2. *)
C19_Witness ==
  /\ Built /\ FiveOne /\ settings.every_n = 4
  /\ settings.skip_first_rest = 0
  /\ timeline[ToneIndex(4) + 1].label = "pause_long"
  /\ Duration(timeline[ToneIndex(3) + 1]) = IntMs(settings.interval)
  /\ Duration(timeline[ToneIndex(2) + 1]) = IntMs(settings.interval)

(* C20: in minutes mode, at every normal (non-rest) boundary of a minute
   i >= 2 the silence is 60000 ms when the minute is spoken, whatever the
   interval, and int(interval * 1000) ms when it is not. *)
C20_MinuteScaledGap ==
  Minutes =>
    LET bi == BeepIndices(timeline)
    IN \A j \in 1..Len(bi) :
         LET n == settings.start - j + 1
             gap == IF ExpectedSpeak(n, settings) THEN 60000
                    ELSE IntMs(settings.interval)
         IN ~RestCount(settings, n) =>
              /\ timeline[bi[j]].label = "beep"
              /\ timeline[bi[j] + 1].label = "pause"
              /\ Duration(timeline[bi[j] + 1]) = gap
              /\ combined[bi[j] + 1] = Silent(gap)

(* A minutes build has returned with a 60000 ms silence after a spoken
   minute and a short one after an unspoken minute. *)
C20_Witness ==
  /\ Built /\ Minutes /\ settings.interval > 0
  /\ \E k, l \in 1..Len(timeline) :
       /\ timeline[k].label = "pause" /\ Duration(timeline[k]) = 60000
       /\ timeline[l].label = "pause"
       /\ Duration(timeline[l]) = IntMs(settings.interval)

(* ------------------- claims on the two assemblers ---------------------- *)

(* Is this label the speech of a count (numbers) or of a minute? *)
IsCountSpeech(l) ==
  \E n \in 1..(MaxStart + 1) : l = Str(n) \/ l = MinuteText(n, settings)

(* The labels of a timeline without the count / minute speech entries. *)
Skeleton(tl) == SelectSeq(Labels(tl), LAMBDA l : ~IsCountSpeech(l))

(* The decision taken at each boundary, in order. *)
BoundaryKinds(tl, s) ==
  [j \in 1..Len(BeepIndices(tl)) |-> ObservedKind(tl, BeepIndices(tl)[j], s)]

WithPolicy(s, sp) == [s EXCEPT !.speak_interval = sp[1], !.speak_at = sp[2]]

SameDecisions(tl1, tl2, s) ==
  /\ Skeleton(tl1) = Skeleton(tl2)
  /\ BoundaryKinds(tl1, s) = BoundaryKinds(tl2, s)
  /\ \A j \in 1..Len(BeepIndices(tl1)) :
       BoundaryKinds(tl1, s)[j] = ExpectedKind(s, s.start - j + 1)

(* C21: for the same start, every_n, skip_first_rest, lead-in and end
   phrase the two assemblers take the same decision (normal, skipped rest,
   full rest) at every count, under every minute policy: without the count
   and minute speech entries their timelines have the same labels. *)
C21_SameBoundaryDecisions ==
  Built =>
    /\ Minutes =>
         SameDecisions(timeline,
                       build_countdown_audio(settings, voice).timeline,
                       settings)
    /\ Numbers =>
         \A sp \in SpeakPolicies :
           SameDecisions(timeline,
                         build_minutes_countdown(WithPolicy(settings, sp),
                                                 voice).timeline,
                         settings)

(* A minutes build that speaks only minutes 5 and 1 has returned; it has
   skipped a rest at minute 4 and taken a full rest at minute 2, as the
   numeric build of the same settings does, whose timeline is longer. *)
C21_Witness ==
  /\ Built /\ Minutes
  /\ settings.speak_at = <<5, 1>> /\ settings.start = 5
  /\ settings.every_n = 2 /\ settings.skip_first_rest = 1
  /\ BoundaryKinds(timeline, settings)
       = << "normal", "skipped", "normal", "full" >>
  /\ Len(build_countdown_audio(settings, voice).timeline) = Len(timeline) + 3

(* C22: the pass for count 1 never runs the boundary step: a build of
   start >= 1 has start - 1 tones, and after the last boundary (after the
   lead-in when start = 1) come only the speech for 1, when 1 is spoken,
   and the end phrase, when one is configured, which is then the final
   entry. *)
SpokenOne == Numbers \/ ExpectedSpeak(1, settings)

AfterLastBoundary(tl) ==
  LET bi == BeepIndices(tl)
      p  == IF Len(bi) = 0
            THEN Len(LeadIn(EmptyBuild(<< >>), settings, voice).timeline)
            ELSE bi[Len(bi)] + 1
  IN SubSeq(Labels(tl), p + 1, Len(tl))

C22_NoBoundaryAfterOne ==
  /\ (pc \in {"numbers_loop", "minutes_loop"} /\ error = "none") =>
       Len(BeepIndices(timeline)) = settings.start - i
  /\ (Built /\ settings.start >= 1) =>
       /\ Len(BeepIndices(timeline)) = settings.start - 1
       /\ AfterLastBoundary(timeline)
            = (IF SpokenOne THEN << CountLabel(1) >> ELSE << >>)
              \o (IF Truthy(settings.end_with)
                  THEN << settings.end_with >> ELSE << >>)
       /\ Truthy(settings.end_with) =>
            timeline[Len(timeline)].label = settings.end_with

(* A minutes build in which minute 1 is not spoken has returned: its last
   two entries are the silence of the boundary of minute 2 and the end
   phrase. *)
C22_Witness ==
  /\ Built /\ Minutes /\ settings.speak_at = <<4, 2>>
  /\ settings.start = 4 /\ Truthy(settings.end_with)
  /\ timeline[Len(timeline)].label = settings.end_with
  /\ timeline[Len(timeline) - 1].label \in {"pause", "pause_long"}

(* C23: with a lead-in configured the first entry is the lead-in speech,
   starting at 0; when lead_in_gap_ms > 0 it is followed by the one
   lead_gap entry, of lead_in_gap_ms milliseconds; both come before every
   entry of the countdown.  Without a lead-in neither appears. *)
Started == pc \in {"numbers_loop", "minutes_loop"} \/ Built

C23_LeadInFirst ==
  (Started /\ error = "none") =>
    IF Truthy(settings.lead_in)
    THEN /\ Len(timeline) >= 1
         /\ timeline[1].label = settings.lead_in
         /\ timeline[1].start = 0
         /\ combined[1].kind = "speech"
         /\ CountOf(timeline, settings.lead_in) = 1
         /\ IF settings.lead_in_gap_ms > 0
            THEN /\ Len(timeline) >= 2
                 /\ timeline[2].label = "lead_gap"
                 /\ Duration(timeline[2]) = settings.lead_in_gap_ms
                 /\ combined[2] = Silent(settings.lead_in_gap_ms)
                 /\ CountOf(timeline, "lead_gap") = 1
            ELSE ~HasLabel(timeline, "lead_gap")
    ELSE /\ ~HasLabel(timeline, "lead_gap")
         /\ \A k \in 1..Len(timeline) :
              \/ IsCountSpeech(timeline[k].label)
              \/ timeline[k].label
                   \in {"beep", "beep_skip_rest", "pause", "pause_long",
                        "pause_skip_rest", settings.rest_text,
                        settings.end_with}

(* A build with a lead-in and a gap has returned, the countdown after
   them. *)
C23_Witness ==
  /\ Built /\ settings.lead_in = "Get ready"
  /\ settings.lead_in_gap_ms = 2 /\ settings.start >= 2
  /\ timeline[1].label = "Get ready"
  /\ timeline[2].label = "lead_gap"
  /\ IsCountSpeech(timeline[3].label)

(* The track and the timeline the assembler of the mode returns for these
   settings and clips. *)
Reference ==
  IF Minutes THEN build_minutes_countdown(settings, voice)
  ELSE build_countdown_audio(settings, voice)

IsPrefix(a, b) == Len(a) <= Len(b) /\ a = SubSeq(b, 1, Len(a))

(* C24: the timeline (labels, starts, ends, in order) and the track of a
   build are a function of the Settings and of the durations of the clips
   alone: any two builds with equal Settings and clips return the same
   timeline, whether each clip was a cache hit or a fresh synthesis and
   whatever number of attempts the synthesis took. *)
C24_Deterministic ==
  /\ (Started /\ error = "none") =>
       /\ IsPrefix(timeline, Reference.timeline)
       /\ IsPrefix(combined, Reference.combined)
  /\ Built =>
       /\ timeline = Reference.timeline
       /\ combined = Reference.combined
       /\ t_ms = Reference.t_ms

(* A build has returned whose first clips were cache hits, whose next were
   synthesized at the third attempt and whose last at the first. *)
C24_Witness ==
  /\ Built /\ served = << 0, Retries, 1 >>
  /\ settings.start = 2
  /\ Len(timeline) >= 5
  /\ timeline = Reference.timeline

(* ------------------ claims on the shared cache entry ------------------- *)

AllReturned == \A r \in Runs : run_pc[r] \in {"returned", "raised"}

(* C25: when runs sharing a cache directory race on one uncached key, the
   tts_cached of each loads a completely written entry, a run that finds
   the entry never loads one that is being written, and at the end the
   cache holds one complete entry. *)
C25_RaceLoadsComplete ==
  /\ \A r \in Runs : run_loaded[r] # "partial"
  /\ (AllReturned /\ cache_file.exists) => Complete(cache_file)

(* ------------------------- claims on main's writes --------------------- *)

WriteOrder == << "combined.wav", "outfile.mp3", "outfile.json" >>

(* C26: main writes the intermediate WAV, then the MP3 at outfile, then
   the sidecar, each once, and a successful run has written all three;
   the sidecar is written only when the audio exports raised no error. *)
C26_WriteOrder ==
  /\ IsPrefix(files, WriteOrder)
  /\ (pc = "exit" /\ rc = 0) => files = WriteOrder
  /\ Wrote("outfile.json") => (error = "none" /\ Wrote("outfile.mp3"))
  /\ error \in {"wav", "mp3"} => ~Wrote("outfile.json")

(* One run has ended with all three files written, in order. *)
C26_Witness ==
  /\ pc = "exit" /\ rc = 0 /\ error = "none"
  /\ files = << "combined.wav", "outfile.mp3", "outfile.json" >>
  /\ Len(timeline) > 0

(* ---------------------- claims on the reused assets -------------------- *)

RestRequests ==
  {k \in 1..Len(tts_requests) : tts_requests[k] = settings.rest_text}

(* C27: in one build make_beep is called once and the rest cue is asked of
   tts_cached at most once, before the loop; every beep and beep_skip_rest
   entry is the one tone, and every rest-cue entry the one rest clip, so
   the entries of a kind have the same duration. *)
C27_AssetsMadeOnce ==
  /\ tones_made <= 1
  /\ Cardinality(RestRequests) <= 1
  /\ RestRequests \subseteq {1}
  /\ (Started /\ error = "none") => tones_made = 1
  /\ \A k \in 1..Len(timeline) :
       /\ timeline[k].label \in {"beep", "beep_skip_rest"} =>
            /\ combined[k] = beep
            /\ Duration(timeline[k]) = settings.beep_ms
       /\ timeline[k].label = settings.rest_text =>
            /\ combined[k] = rest_seg
            /\ Duration(timeline[k]) = SegLen(rest_seg)

(* A build with two full rests and a skipped one has returned. *)
C27_Witness ==
  /\ Built /\ tones_made = 1
  /\ CountOf(timeline, settings.rest_text) >= 2
  /\ CountOf(timeline, "beep") >= 3
  /\ CountOf(timeline, "beep_skip_rest") >= 1
  /\ Cardinality(RestRequests) = 1

(* The count whose boundary holds entry k: one tone per boundary. *)
CountAt(k) ==
  settings.start + 1
    - Cardinality({m \in 1..k :
                     timeline[m].label \in {"beep", "beep_skip_rest"}})

SkipGap(n) ==
  IF Numbers THEN IntMs(settings.interval)
  ELSE IF ExpectedSpeak(n, settings) THEN 60000
  ELSE IntMs(settings.interval)

(* C28: the silence of a skipped rest (pause_skip_rest) lasts
   int(interval * 1000) ms in numbers mode; in minutes mode 60000 ms when
   the boundary's minute is spoken and int(interval * 1000) ms when it is
   not; it is never the long interval. *)
C28_SkippedRestGap ==
  \A k \in 1..Len(timeline) :
    timeline[k].label = "pause_skip_rest" =>
      /\ Duration(timeline[k]) = SkipGap(CountAt(k))
      /\ combined[k] = Silent(SkipGap(CountAt(k)))
      /\ Duration(timeline[k]) # IntMs(settings.long_interval)
      /\ ExpectedKind(settings, CountAt(k)) = "skipped"

(* A minutes build has returned with a skipped rest after the spoken
   minute 5 (60000 ms) and one after the unspoken minute 4 (the short
   interval). *)
C28_Witness ==
  /\ Built /\ Minutes /\ settings.speak_at = <<5, 1>>
  /\ settings.start = 5 /\ settings.every_n = 1
  /\ settings.skip_first_rest = 2
  /\ \E k, l \in 1..Len(timeline) :
       /\ k < l
       /\ timeline[k].label = "pause_skip_rest"
       /\ Duration(timeline[k]) = 60000
       /\ timeline[l].label = "pause_skip_rest"
       /\ Duration(timeline[l]) = IntMs(settings.interval)

(* ----------------------- claims on the front-ends ---------------------- *)

AliveWorkers == {w \in WorkerIds : Alive(workers[w])}

(* C29: in the web front-end and in the GUI at most one builder subprocess
   and at most one worker exist at any time; a generate request that
   arrives while the busy flag is set starts no thread and no subprocess
   and leaves the status as it is. *)
C29_AtMostOneBuilder ==
  /\ [](procs <= 1 /\ Cardinality(AliveWorkers) <= 1)
  /\ [](procs = 1 => running)
  /\ [][(running /\ requests' = requests + 1) =>
          /\ workers' = workers
          /\ procs' = procs
          /\ running' = running
          /\ message' = message
          /\ callbacks' = callbacks]_vars

(* The builder is running and a second request has been turned away. *)
C29_Witness ==
  /\ running /\ procs = 1
  /\ requests = 2
  /\ workers[1] = "run" /\ workers[2] = "none"
  /\ message = "Generating..."

(* C30: once a generation has set the busy flag, the flag returns to false
   after every outcome of the worker (return code 0, another return code,
   an exception), given that threads run, the builder terminates and the
   main loop runs its callbacks; the flag is never set with no worker
   alive and no completion pending. *)
C30_BusyEventuallyClears ==
  /\ running ~> ~running
  /\ [](running => (AliveWorkers # {} \/ callbacks # << >>))

(* A GUI generation ended in an exception and the flag has been cleared by
   generation_error. *)
C30_Witness ==
  /\ front = "gui" /\ ~running
  /\ message = "error"
  /\ workers[1] = "done"
  /\ callbacks = << >>

(* ------------------- claims on termination and errors ------------------ *)

InLoop == pc \in {"numbers_loop", "minutes_loop"}

(* C31: the loop of an assembler runs at most max(start, 0) times, the
   count going down from start to 1, and the build ends by returning at
   count 1 or by a synthesis error; for start <= 0 the loop body never
   runs and the assembler returns an empty timeline and a track of length
   zero. *)
C31_TerminatesWithinStart ==
  /\ InLoop => (1 <= i /\ i <= settings.start)
  /\ (Built /\ settings.start >= 1) => i = 1
  /\ pc = "raised" => error \in {"tts", "wav", "mp3", "json"}
  /\ (Built /\ settings.start <= 0) =>
       /\ timeline = << >>
       /\ TrackLen(combined) = 0

(* C33: with every_n = 0 neither assembler asks tts_cached for the rest
   text, so no build with rests disabled is ended by its synthesis. *)
C33_NoRestRequestWhenDisabled ==
  settings.every_n = 0 => ~InSeq(settings.rest_text, tts_requests)

(* ---------------------- claims on the cache key ------------------------ *)

(* C32: a tts_cached call is served a cache entry only if that entry was
   synthesized for the call's own (lang, tld, text) triple, the hashed
   string lang|tld|text being different for different triples: speech
   synthesized for one triple is never returned for another. *)
C32_EntryOnlyForSameTriple ==
  tts_outcome \in {"hit", "synth"} => made_for[tts_key] = tts_triple

EntriesOf(c) == {k \in Keys : c[k] # Missing}

(* C34: when tts_cached fails because the synthesis has used up its
   retries, the cache has no entry for that key; entries written earlier
   stay as they are; a later call for a key without an entry goes to
   synthesis, and what a call loads is always a written entry. *)
C34_FailureLeavesNoEntry ==
  /\ [](tts_outcome = "raised" => cache[tts_key] = Missing)
  /\ [][EntriesOf(cache) \subseteq EntriesOf(cache')
         /\ \A k \in EntriesOf(cache) : cache'[k] = cache[k]]_vars
  /\ [][(tts_calls' = tts_calls + 1 /\ cache[tts_key'] = Missing) =>
          (tts_pc' = "attempt" /\ tts_outcome' # "hit")]_vars
  /\ [](tts_outcome = "hit" => tts_result # Missing)

(* A run wrote an entry for one key and failed for another; a later run
   is synthesizing the failed key again, the first entry still there. *)
C34_Witness ==
  /\ tts_pc = "attempt"
  /\ tts_calls = 3
  /\ synth_calls[tts_key] = Retries
  /\ cache[tts_key] = Missing
  /\ \E k \in Keys : k # tts_key /\ cache[k] # Missing

(* -------------------- claims on the front-ends' reports ---------------- *)

(* A form the GUI must refuse: start <= 0, interval <= 0, or a field that
   is not a number. *)
InvalidForm(f) ==
  \/ ~f.start.ok
  \/ ~f.interval.ok
  \/ (f.start.ok /\ f.start.val <= 0)
  \/ (f.interval.ok /\ f.interval.val <= 0)

(* C35: in the GUI a generate request with start <= 0, interval <= 0 or an
   unreadable number shows an error and returns: is_generating stays
   false, the button stays enabled, and no thread, subprocess or callback
   is started. *)
C35_InvalidFormOnlyReports ==
  [][(front = "gui" /\ requests' = requests + 1 /\ InvalidForm(form')) =>
       /\ alerts' = alerts + 1
       /\ ~running /\ ~running'
       /\ button = "normal" /\ button' = "normal"
       /\ workers' = workers
       /\ procs' = procs
       /\ callbacks' = callbacks
       /\ message' = message]_vars

(* The GUI has refused a form whose interval is not a number, after a
   generation that ran to its end: nothing is running and the button is
   enabled. *)
C35_Witness ==
  /\ front = "gui"
  /\ requests = 2
  /\ alerts = 1
  /\ form.start = Num(2)
  /\ form.interval = NotANumber
  /\ ~running
  /\ button = "normal"
  /\ workers[1] = "done"
  /\ workers[2] = "none"
  /\ procs = 0

Generations == {w \in WorkerIds : workers[w] # "none"}

LastGeneration == CHOOSE w \in Generations : \A v \in Generations : v <= w

(* C36: in the web front-end, whenever running is false, file is non-empty
   exactly when the most recent generation exited with code 0, and then it
   names the file that run's builder wrote (the --outfile value of the
   command line, or the builder's default); after a failed or crashed run
   file is null. *)
C36_FileNamesBuiltOutput ==
  (front = "web" /\ ~running) =>
    IF Generations = {} THEN file = NullFile
    ELSE /\ (file # NullFile /\ file # << >>)
              <=> outcome_of[LastGeneration] = "ok"
         /\ outcome_of[LastGeneration] = "ok" =>
              file = CmdOutfile(params_of[LastGeneration])
         /\ outcome_of[LastGeneration] # "ok" => file = NullFile

(* C37: in the web front-end the answer {"status": "started"} is given
   only to a request that started a new generation; a request ignored
   because a generation is running is not answered as started. *)
C37_StartedOnlyIfStarted ==
  (front = "web" /\ response = "started") => last_started

====
